---- MODULE Spec2Model ----
(***************************************************************************)
(* Model of chia/wallet/puzzles/offer.py: the Offer value, its             *)
(* construction-time validation, its analyzer views, aggregation,          *)
(* completion and the spend-bundle wire format.                            *)
(*                                                                         *)
(* Python objects are modelled with reference semantics: every payment     *)
(* list of an Offer lives in the heap `lists` and an Offer's               *)
(* requested_payments dict maps an asset key to the address of its list.   *)
(* 32-byte hashes are integers; tree hashes and coin names are injective   *)
(* integer encodings of what they hash.                                    *)
(***************************************************************************)
EXTENDS Integers, Sequences, FiniteSets, TLC

VARIABLES offers, lists, last, notarized

vars == <<offers, lists, last, notarized>>

(***************************************************************************)
(* Bounds of the model.                                                    *)
(***************************************************************************)
MaxOffers == 3
MaxBuilt == 2
MaxAgg == 2
MaxAmount == 2
MaxPayments == 1
MaxCoins == 2
MaxListLen == 2
MaxCalls == 2

(***************************************************************************)
(* Hashes, programs and puzzles.                                           *)
(***************************************************************************)
ZERO_32 == 0

None == -1

CREATE_COIN == 51

\* A program is either a plain compiled puzzle, named by `inner`, or the
\* token wrapper CAT_MOD curried with a tail hash and a plain inner puzzle.
OFFER_MOD == [cat |-> FALSE, tail |-> ZERO_32, inner |-> "settlement_payments"]

P2_MOD == [cat |-> FALSE, tail |-> ZERO_32, inner |-> "p2"]

construct_cat_puzzle(tail, inner) == [cat |-> TRUE, tail |-> tail, inner |-> inner.inner]

match_cat_puzzle(puzzle) ==
    [matched |-> puzzle.cat,
     tail_hash |-> puzzle.tail,
     inner_puzzle |-> [cat |-> FALSE, tail |-> ZERO_32, inner |-> puzzle.inner]]

\* Injective on the programs above: plain puzzles hash to 1 and 2, wrapped
\* ones to 3 * (tail + 1) + (1 or 2); multiples of 3 are free for payees.
get_tree_hash(puzzle) ==
    LET id == IF puzzle.inner = "settlement_payments" THEN 1 ELSE 2
    IN  IF puzzle.cat THEN 3 * (puzzle.tail + 1) + id ELSE id

ph == get_tree_hash(OFFER_MOD)

Tails == {1}

AssetKeys == {None} \cup Tails

\* `if tail_hash:` is false for None only (a bytes32 is never empty).
SettlementPuzzle(tail_hash) ==
    IF tail_hash # None THEN construct_cat_puzzle(tail_hash, OFFER_MOD) ELSE OFFER_MOD

(***************************************************************************)
(* Coins, spends, bundles.                                                 *)
(***************************************************************************)
Coin(parent, puzzle_hash, amount) ==
    [parent_coin_info |-> parent, puzzle_hash |-> puzzle_hash, amount |-> amount]

\* Injective for puzzle hashes and amounts below 16.
CoinName(c) == (c.parent_coin_info * 16 + c.puzzle_hash) * 16 + c.amount + 1

CoinSpend(coin, puzzle_reveal, solution) ==
    [coin |-> coin, puzzle_reveal |-> puzzle_reveal, solution |-> solution]

\* A solution is the list of conditions handed to the inner puzzle plus the
\* lineage proof the token wrapper adds (empty for an unwrapped solution).
Solution(conds, lineage) == [inner |-> conds, lineage |-> lineage]

G2Element == 0

\* Signatures form an abelian group with G2Element as its identity.
AggregateSig(a, b) == (a + b) % 5

SpendBundle(coin_spends, sig) == [coin_spends |-> coin_spends, aggregated_signature |-> sig]

SpendBundle_aggregate(a, b) ==
    SpendBundle(a.coin_spends \o b.coin_spends,
                AggregateSig(a.aggregated_signature, b.aggregated_signature))

\* The outputs of running a spend's puzzle on its solution: one created coin
\* per condition of the solution, child of the spent coin.
SpendAdditions(cs) ==
    [i \in DOMAIN cs.solution.inner |->
        Coin(CoinName(cs.coin), cs.solution.inner[i][2], cs.solution.inner[i][3])]

RECURSIVE additions(_)
additions(coin_spends) ==
    IF coin_spends = <<>> THEN <<>>
    ELSE SpendAdditions(Head(coin_spends)) \o additions(Tail(coin_spends))

(***************************************************************************)
(* Payments.                                                               *)
(***************************************************************************)
Payment(puzzle_hash, amount, memos) ==
    [puzzle_hash |-> puzzle_hash, amount |-> amount, memos |-> memos]

NotarizedPayment(puzzle_hash, amount, memos, nonce) ==
    [puzzle_hash |-> puzzle_hash, amount |-> amount, memos |-> memos, nonce |-> nonce]

as_condition_args(p) == <<p.puzzle_hash, p.amount, p.memos>>

as_condition(np) == <<np.nonce>> \o as_condition_args(np)

Payment_from_condition(condition) == Payment(condition[2], condition[3], condition[4])

\* bytes32(...) of the first atom fails unless the atom is 32 bytes long; the
\* only shorter atom of the model is the CREATE_COIN opcode.
IsBytes32(x) == x # CREATE_COIN

from_condition(condition) ==
    LET p == Payment_from_condition(condition)
        args == as_condition_args(p)
    IN  NotarizedPayment(args[1], args[2], args[3], condition[1])

\* name() is the tree hash of as_condition(): injective, so the condition
\* itself stands for it.
name(np) == as_condition(np)

(***************************************************************************)
(* Insertion-ordered dicts: sequences of [key, val] with distinct keys.    *)
(***************************************************************************)
DictKeys(d) == {d[i].key : i \in DOMAIN d}

DictHas(d, k) == \E i \in DOMAIN d : d[i].key = k

DictGet(d, k) == d[CHOOSE i \in DOMAIN d : d[i].key = k].val

DictGetDefault(d, k, default) == IF DictHas(d, k) THEN DictGet(d, k) ELSE default

DictSet(d, k, v) ==
    IF DictHas(d, k)
    THEN [i \in DOMAIN d |-> IF d[i].key = k THEN [key |-> k, val |-> v] ELSE d[i]]
    ELSE Append(d, [key |-> k, val |-> v])

\* Python dict equality: same keys, equal values, order ignored.
DictEq(d, e) ==
    /\ DictKeys(d) = DictKeys(e)
    /\ \A k \in DictKeys(d) : DictGet(d, k) = DictGet(e, k)

RECURSIVE SumAmounts(_)
SumAmounts(s) == IF s = <<>> THEN 0 ELSE Head(s).amount + SumAmounts(Tail(s))

(***************************************************************************)
(* Offer analyzer.  An offer value is a dict of payment lists and a bundle.*)
(***************************************************************************)
\* list(filter(lambda cs: cs.coin.name() == parent, coin_spends))[0]
ParentSpend(bundle, parent) ==
    bundle.coin_spends[CHOOSE i \in DOMAIN bundle.coin_spends :
        /\ CoinName(bundle.coin_spends[i].coin) = parent
        /\ \A j \in 1..(i - 1) : CoinName(bundle.coin_spends[j].coin) # parent]

\* A faulty variant: the expected puzzle hash is the native settlement hash
\* whatever the parent's puzzle is.
RECURSIVE OfferedLoop_native_hash(_, _, _)
OfferedLoop_native_hash(bundle, adds, offered_coins) ==
    IF adds = <<>> THEN offered_coins
    ELSE LET addition == Head(adds)
             parent_puzzle == ParentSpend(bundle, addition.parent_coin_info).puzzle_reveal
             m == match_cat_puzzle(parent_puzzle)
             tail_hash == IF m.matched THEN m.tail_hash ELSE None
         IN  IF addition.puzzle_hash = get_tree_hash(OFFER_MOD)
             THEN OfferedLoop_native_hash(bundle, Tail(adds),
                      IF DictHas(offered_coins, tail_hash)
                      THEN DictSet(offered_coins, tail_hash,
                                   Append(DictGet(offered_coins, tail_hash), addition))
                      ELSE DictSet(offered_coins, tail_hash, <<addition>>))
             ELSE OfferedLoop_native_hash(bundle, Tail(adds), offered_coins)

RECURSIVE OfferedLoop(_, _, _)
OfferedLoop(bundle, adds, offered_coins) ==
    IF adds = <<>> THEN offered_coins
    ELSE LET addition == Head(adds)
             parent_puzzle == ParentSpend(bundle, addition.parent_coin_info).puzzle_reveal
             m == match_cat_puzzle(parent_puzzle)
             tail_hash == IF m.matched THEN m.tail_hash ELSE None
             offer_ph == IF m.matched
                         THEN get_tree_hash(construct_cat_puzzle(m.tail_hash, OFFER_MOD))
                         ELSE get_tree_hash(OFFER_MOD)
         IN  IF addition.puzzle_hash = offer_ph
             THEN OfferedLoop(bundle, Tail(adds),
                      IF DictHas(offered_coins, tail_hash)
                      THEN DictSet(offered_coins, tail_hash,
                                   Append(DictGet(offered_coins, tail_hash), addition))
                      ELSE DictSet(offered_coins, tail_hash, <<addition>>))
             ELSE OfferedLoop(bundle, Tail(adds), offered_coins)

get_offered_coins(bundle) == OfferedLoop(bundle, additions(bundle.coin_spends), <<>>)

get_offered_amounts(bundle) ==
    LET offered_coins == get_offered_coins(bundle)
    IN  [i \in DOMAIN offered_coins |->
            [key |-> offered_coins[i].key, val |-> SumAmounts(offered_coins[i].val)]]

get_requested_amounts(requested_payments) ==
    [i \in DOMAIN requested_payments |->
        [key |-> requested_payments[i].key, val |-> SumAmounts(requested_payments[i].val)]]

RECURSIVE ArbitrageLoop(_, _, _, _)
ArbitrageLoop(asset_ids, offered_amounts, requested_amounts, arbitrage_dict) ==
    IF asset_ids = <<>> THEN arbitrage_dict
    ELSE LET asset_id == Head(asset_ids)
         IN  ArbitrageLoop(Tail(asset_ids), offered_amounts, requested_amounts,
                 DictSet(arbitrage_dict, asset_id,
                         DictGetDefault(offered_amounts, asset_id, 0)
                             - DictGetDefault(requested_amounts, asset_id, 0)))

\* A faulty variant: only the requested assets get an entry.
arbitrage_requested_only(requested_payments, bundle) ==
    LET offered_amounts == get_offered_amounts(bundle)
        requested_amounts == get_requested_amounts(requested_payments)
        asset_ids == [i \in DOMAIN requested_amounts |-> requested_amounts[i].key]
    IN  ArbitrageLoop(asset_ids, offered_amounts, requested_amounts, <<>>)

arbitrage(requested_payments, bundle) ==
    LET offered_amounts == get_offered_amounts(bundle)
        requested_amounts == get_requested_amounts(requested_payments)
        asset_ids == [i \in DOMAIN requested_amounts |-> requested_amounts[i].key]
                         \o [i \in DOMAIN offered_amounts |-> offered_amounts[i].key]
    IN  ArbitrageLoop(asset_ids, offered_amounts, requested_amounts, <<>>)

is_valid(requested_payments, bundle) ==
    LET a == arbitrage(requested_payments, bundle)
    IN  \A i \in DOMAIN a : a[i].val >= 0

HasDuplicates(payments) ==
    Cardinality({name(payments[i]) : i \in DOMAIN payments}) # Len(payments)

\* A faulty variant: the check for something being offered is missing.
post_init_no_empty_check(requested_payments, bundle) ==
    IF \E i \in DOMAIN requested_payments : HasDuplicates(requested_payments[i].val)
    THEN "duplicate"
    ELSE "ok"

\* __post_init__: the error it raises, or "ok".
post_init(requested_payments, bundle) ==
    IF get_offered_coins(bundle) = <<>> THEN "empty"
    ELSE IF \E i \in DOMAIN requested_payments : HasDuplicates(requested_payments[i].val)
         THEN "duplicate"
         ELSE "ok"

(***************************************************************************)
(* Completion: to_valid_spend.                                             *)
(***************************************************************************)
\* A faulty variant: a surplus of zero is paid out too.
AllPayments_zero_surplus(payments, arbitrage_ph, arbitrage_amount) ==
    IF arbitrage_amount >= 0
    THEN Append(payments, NotarizedPayment(arbitrage_ph, arbitrage_amount, <<>>, ZERO_32))
    ELSE payments

\* payments.copy(), plus the surplus payment (default memos, default nonce).
AllPayments(payments, arbitrage_ph, arbitrage_amount) ==
    IF arbitrage_amount > 0
    THEN Append(payments, NotarizedPayment(arbitrage_ph, arbitrage_amount, <<>>, ZERO_32))
    ELSE payments

InnerSolution(all_payments, coin, offered_coins) ==
    IF coin = offered_coins[1]
    THEN [i \in DOMAIN all_payments |-> as_condition(all_payments[i])]
    ELSE <<>>

\* The spend of one offered coin: the token branch wraps the inner solution
\* with the lineage proof of the parent spend.
CompletionSpend(bundle, tail_hash, coin, inner_solution) ==
    IF tail_hash # None
    THEN LET parent_spend == ParentSpend(bundle, coin.parent_coin_info)
             parent_coin == parent_spend.coin
             m == match_cat_puzzle(parent_spend.puzzle_reveal)
         IN  CoinSpend(coin, construct_cat_puzzle(tail_hash, OFFER_MOD),
                 Solution(inner_solution,
                          <<parent_coin.parent_coin_info,
                            get_tree_hash(m.inner_puzzle),
                            parent_coin.amount>>))
    ELSE CoinSpend(coin, OFFER_MOD, Solution(inner_solution, <<>>))

CompletionSpendsFor(requested_payments, bundle, tail_hash, payments, arbitrage_ph) ==
    LET offered_coins == DictGet(get_offered_coins(bundle), tail_hash)
        arbitrage_amount == DictGet(arbitrage(requested_payments, bundle), tail_hash)
        all_payments == AllPayments(payments, arbitrage_ph, arbitrage_amount)
    IN  [i \in DOMAIN offered_coins |->
            CompletionSpend(bundle, tail_hash, offered_coins[i],
                            InnerSolution(all_payments, offered_coins[i], offered_coins))]

RECURSIVE CompletionLoop(_, _, _, _, _)
CompletionLoop(requested_payments, bundle, arbitrage_ph, i, completion_spends) ==
    IF i > Len(requested_payments)
    THEN [err |-> "ok", spends |-> completion_spends]
    ELSE IF ~DictHas(get_offered_coins(bundle), requested_payments[i].key)
         THEN [err |-> "KeyError", spends |-> <<>>]
         ELSE CompletionLoop(requested_payments, bundle, arbitrage_ph, i + 1,
                  completion_spends \o
                      CompletionSpendsFor(requested_payments, bundle,
                          requested_payments[i].key, requested_payments[i].val,
                          arbitrage_ph))

EmptyBundle == SpendBundle(<<>>, G2Element)

\* The error raised, or "ok" and the returned spend bundle.
to_valid_spend(requested_payments, bundle, arbitrage_ph) ==
    IF ~is_valid(requested_payments, bundle)
    THEN [err |-> "incomplete", bundle |-> EmptyBundle]
    ELSE LET r == CompletionLoop(requested_payments, bundle, arbitrage_ph, 1, <<>>)
         IN  IF r.err # "ok"
             THEN [err |-> r.err, bundle |-> EmptyBundle]
             ELSE [err |-> "ok",
                   bundle |-> SpendBundle_aggregate(SpendBundle(r.spends, G2Element), bundle)]

(***************************************************************************)
(* Wire format.  The spend-bundle codec is a collaborator: the wire value  *)
(* of an offer is the spend bundle handed to it.                           *)
(***************************************************************************)
DummySpend(tail_hash, payments) ==
    LET puzzle_reveal == SettlementPuzzle(tail_hash)
    IN  CoinSpend(Coin(ZERO_32, get_tree_hash(puzzle_reveal), 0),
                  puzzle_reveal,
                  Solution([i \in DOMAIN payments |-> as_condition(payments[i])], <<>>))

Offer_bytes(requested_payments, bundle) ==
    LET additional_coin_spends ==
            [i \in DOMAIN requested_payments |->
                DummySpend(requested_payments[i].key, requested_payments[i].val)]
    IN  SpendBundle_aggregate(SpendBundle(additional_coin_spends, G2Element), bundle)

IsDummy(coin_spend) == coin_spend.coin.parent_coin_info = ZERO_32

RECURSIVE FromBytesLoop(_, _, _)
FromBytesLoop(coin_spends, requested_payments, leftover_coin_spends) ==
    IF coin_spends = <<>>
    THEN [err |-> "ok", requested_payments |-> requested_payments,
          coin_spends |-> leftover_coin_spends]
    ELSE LET coin_spend == Head(coin_spends)
             m == match_cat_puzzle(coin_spend.puzzle_reveal)
             tail_hash == IF m.matched THEN m.tail_hash ELSE None
             conditions == coin_spend.solution.inner
         IN  IF IsDummy(coin_spend)
             THEN IF \E i \in DOMAIN conditions : ~IsBytes32(conditions[i][1])
                  THEN [err |-> "malformed", requested_payments |-> <<>>,
                        coin_spends |-> <<>>]
                  ELSE FromBytesLoop(Tail(coin_spends),
                           DictSet(requested_payments, tail_hash,
                               [i \in DOMAIN conditions |-> from_condition(conditions[i])]),
                           leftover_coin_spends)
             ELSE FromBytesLoop(Tail(coin_spends), requested_payments,
                                Append(leftover_coin_spends, coin_spend))

\* The offer value handed to the constructor, or the parse error.
from_bytes(as_bytes) ==
    LET r == FromBytesLoop(as_bytes.coin_spends, <<>>, <<>>)
    IN  [err |-> r.err,
         requested_payments |-> r.requested_payments,
         bundle |-> SpendBundle(r.coin_spends, as_bytes.aggregated_signature)]

(***************************************************************************)
(* Aggregation, on the heap of payment lists.                              *)
(***************************************************************************)
\* The payment lists an offer's dict points to.
Deref(requested_payments, heap) ==
    [i \in DOMAIN requested_payments |->
        [key |-> requested_payments[i].key, val |-> heap[requested_payments[i].val]]]

Inputs(bundle) == {bundle.coin_spends[i].coin : i \in DOMAIN bundle.coin_spends}

\* A faulty variant: the overlap check is skipped.
Overlaps_unchecked(total_bundle, offer_bundle) == FALSE

Overlaps(total_bundle, offer_bundle) == Inputs(total_bundle) \cap Inputs(offer_bundle) # {}

\* A faulty variant: a key the total already has is assigned the new offer's
\* list instead of being extended by it.
RECURSIVE AggPayments_overwritten(_, _, _)
AggPayments_overwritten(entries, total, heap) ==
    IF entries = <<>> THEN [total |-> total, heap |-> heap]
    ELSE AggPayments_overwritten(Tail(entries),
             DictSet(total, Head(entries).key, Head(entries).val), heap)

\* total_requested_payments[tail].extend(payments) grows the list object in
\* place; total_requested_payments[tail] = payments stores the offer's own
\* list object in the total.
RECURSIVE AggPayments(_, _, _)
AggPayments(entries, total, heap) ==
    IF entries = <<>> THEN [total |-> total, heap |-> heap]
    ELSE LET tail == Head(entries).key
             payments == Head(entries).val
         IN  IF DictHas(total, tail)
             THEN AggPayments(Tail(entries), total,
                      [heap EXCEPT ![DictGet(total, tail)] = @ \o heap[payments]])
             ELSE AggPayments(Tail(entries), DictSet(total, tail, payments), heap)

\* A faulty variant: the running total is replaced by the new offer's bundle.
AggBundle_replaced(total_bundle, offer_bundle) == offer_bundle

AggBundle(total_bundle, offer_bundle) == SpendBundle_aggregate(total_bundle, offer_bundle)

RECURSIVE AggLoop(_, _, _, _)
AggLoop(offs, total, total_bundle, heap) ==
    IF offs = <<>>
    THEN [err |-> "ok", requested_payments |-> total, bundle |-> total_bundle,
          heap |-> heap]
    ELSE LET offer == Head(offs)
         IN  IF Overlaps(total_bundle, offer.bundle)
             THEN [err |-> "overlap", requested_payments |-> total,
                   bundle |-> total_bundle, heap |-> heap]
             ELSE LET r == AggPayments(offer.requested_payments, total, heap)
                  IN  AggLoop(Tail(offs), r.total,
                              AggBundle(total_bundle, offer.bundle), r.heap)

\* The offer handed to the constructor (its dict points into the heap), the
\* heap as the loop left it, and the error raised by the loop or by the
\* constructor.
aggregate(offs, heap) ==
    LET r == AggLoop(offs, <<>>, EmptyBundle, heap)
    IN  [err |-> IF r.err # "ok" THEN r.err
                 ELSE post_init(Deref(r.requested_payments, r.heap), r.bundle),
         requested_payments |-> r.requested_payments,
         bundle |-> r.bundle,
         heap |-> r.heap]

(***************************************************************************)
(* Notarization.                                                           *)
(***************************************************************************)
RECURSIVE InsertByName(_, _)
InsertByName(c, sorted) ==
    IF sorted = <<>> THEN <<c>>
    ELSE IF CoinName(c) < CoinName(Head(sorted))
         THEN <<c>> \o sorted
         ELSE <<Head(sorted)>> \o InsertByName(c, Tail(sorted))

RECURSIVE SortByName(_)
SortByName(coins) ==
    IF coins = <<>> THEN <<>>
    ELSE InsertByName(coins[Len(coins)], SortByName(SubSeq(coins, 1, Len(coins) - 1)))

\* A faulty variant: the coins are hashed in the order given.
sorted_coins_unsorted(coins) == coins

sorted_coins(coins) == SortByName(coins)

\* Tree hash of the list of the coins' canonical forms: the coin names are
\* the digits (never 0, below 1024) of a base-1024 numeral.
RECURSIVE TreeHashCoins(_)
TreeHashCoins(coin_list) ==
    IF coin_list = <<>> THEN 0
    ELSE TreeHashCoins(SubSeq(coin_list, 1, Len(coin_list) - 1)) * 1024
             + CoinName(coin_list[Len(coin_list)])

Nonce(coins) == TreeHashCoins(sorted_coins(coins))

notarize_payments(requested_payments, coins) ==
    LET nonce == Nonce(coins)
    IN  [i \in DOMAIN requested_payments |->
            [key |-> requested_payments[i].key,
             val |-> [j \in DOMAIN requested_payments[i].val |->
                        LET args == as_condition_args(requested_payments[i].val[j])
                        IN  NotarizedPayment(args[1], args[2], args[3], nonce)]]]

(***************************************************************************)
(* Inputs of the operations.                                               *)
(***************************************************************************)
SeqsUpTo(S, n) == UNION {[1..k -> S] : k \in 0..n}

PayeeHashes == {6}

ArbitragePhs == {3}

Nonces == {9}

PaymentMenu ==
    {NotarizedPayment(h, a, <<>>, n) : h \in PayeeHashes, a \in 1..MaxAmount, n \in Nonces}

ListMenu == SeqsUpTo(PaymentMenu, MaxPayments)

DictMenu ==
    {<<>>} \cup {<<[key |-> k, val |-> l]>> : k \in AssetKeys, l \in ListMenu}

InputPuzzles == {P2_MOD} \cup {construct_cat_puzzle(t, P2_MOD) : t \in Tails}

OutputHashes ==
    {get_tree_hash(SettlementPuzzle(k)) : k \in AssetKeys} \cup {get_tree_hash(P2_MOD)}

\* Bundles of one spend that creates one coin of the largest amount; `atom`
\* is the first atom of the solution's condition.
BundleMenu(parents, puzzles, atom) ==
    {SpendBundle(<<CoinSpend(Coin(parent, get_tree_hash(puzzle), MaxAmount), puzzle,
                             Solution(<<<<atom, h, MaxAmount, <<>>>>>>, <<>>))>>, 1) :
        parent \in parents, puzzle \in puzzles, h \in OutputHashes}

\* The bundle of one wallet-coin spend whose solution creates three coins:
\* a native settlement coin, change to the wallet, and the same settlement
\* coin again (additions() lists it two times).
MultiOutputBundles(parent) ==
    {SpendBundle(<<CoinSpend(Coin(parent, get_tree_hash(P2_MOD), MaxAmount), P2_MOD,
                             Solution(<<<<CREATE_COIN, ph, MaxAmount, <<>>>>,
                                        <<CREATE_COIN, get_tree_hash(P2_MOD), 1, <<>>>>,
                                        <<CREATE_COIN, ph, MaxAmount, <<>>>>>>, <<>>))>>, 1)}

\* The bundles an offer is constructed from: a spend of a wallet coin with a
\* parent of its own, a spend of a wallet coin whose parent id is ZERO_32,
\* a spend of a settlement coin whose parent id is ZERO_32 (its solution is a
\* list of notarized payments), and a spend that creates three coins.
ConstructBundles(parent) ==
    BundleMenu({parent}, InputPuzzles, CREATE_COIN)
        \cup BundleMenu({ZERO_32}, {P2_MOD}, CREATE_COIN)
        \cup UNION {BundleMenu({ZERO_32}, {OFFER_MOD}, n) : n \in Nonces}
        \cup MultiOutputBundles(parent)

(***************************************************************************)
(* State machine.                                                          *)
(***************************************************************************)
\* What the last call was and what it produced: the operation, the error it
\* raised ("ok" for none), the offers it was given, whether each of them was
\* is_valid() when the call began, the offer it built (0 for none), the offer
\* value handed to the constructor, the bundle handed to the constructor or
\* returned by to_valid_spend, and the payout puzzle hash.
Result(op, err, ins, valid, res, requested_payments, bundle, arbitrage_ph) ==
    [op |-> op, err |-> err, ins |-> ins, valid |-> valid, res |-> res,
     requested_payments |-> requested_payments, bundle |-> bundle,
     arbitrage_ph |-> arbitrage_ph]

Init ==
    /\ offers = <<>>
    /\ lists = <<>>
    /\ last = Result("init", "ok", <<>>, TRUE, 0, <<>>, EmptyBundle, ZERO_32)
    /\ notarized = <<>>

\* The payment lists of offer i, read through the heap.
Payments(i) == Deref(offers[i].requested_payments, lists)

AllValid(ins) == \A k \in DOMAIN ins : is_valid(Payments(ins[k]), offers[ins[k]].bundle)

\* Offer(requested_payments, bundle) with fresh list objects: __post_init__
\* raises or the offer is built.
Build(op, ins, requested_payments, bundle) ==
    \E err \in {post_init(requested_payments, bundle)} :
        /\ err = "ok" => Len(offers) < MaxOffers
        /\ IF err = "ok"
           THEN /\ lists' = lists \o [i \in DOMAIN requested_payments |->
                                         requested_payments[i].val]
                /\ offers' = Append(offers,
                       [requested_payments |->
                            [i \in DOMAIN requested_payments |->
                                [key |-> requested_payments[i].key,
                                 val |-> Len(lists) + i]],
                        bundle |-> bundle])
           ELSE UNCHANGED <<offers, lists>>
        /\ last' = Result(op, err, ins, AllValid(ins),
                          IF err = "ok" THEN Len(offers) + 1 ELSE 0,
                          requested_payments, bundle, ZERO_32)
        /\ UNCHANGED notarized

Construct ==
    /\ Len(offers) < MaxBuilt
    /\ \E requested_payments \in DictMenu :
           \E bundle \in ConstructBundles(Len(offers) + 1) :
               Build("Offer", <<>>, requested_payments, bundle)

FromBytes ==
    \E i \in DOMAIN offers :
        \E r \in {from_bytes(Offer_bytes(Payments(i), offers[i].bundle))} :
            IF r.err = "ok"
            THEN Build("from_bytes", <<i>>, r.requested_payments, r.bundle)
            ELSE /\ last' = Result("from_bytes", r.err, <<i>>, AllValid(<<i>>), 0, <<>>,
                                   EmptyBundle, ZERO_32)
                 /\ UNCHANGED <<offers, lists, notarized>>

Aggregate ==
    \E ins \in SeqsUpTo(DOMAIN offers, MaxAgg) :
        \E r \in {aggregate([k \in DOMAIN ins |-> offers[ins[k]]], lists)} :
            /\ \A l \in DOMAIN r.heap : Len(r.heap[l]) <= MaxListLen
            /\ r.err = "ok" => Len(offers) < MaxOffers
            /\ lists' = r.heap
            /\ offers' = IF r.err = "ok"
                         THEN Append(offers,
                                  [requested_payments |-> r.requested_payments,
                                   bundle |-> r.bundle])
                         ELSE offers
            /\ last' = Result("aggregate", r.err, ins, AllValid(ins),
                              IF r.err = "ok" THEN Len(offers) + 1 ELSE 0,
                              Deref(r.requested_payments, r.heap), r.bundle, ZERO_32)
            /\ UNCHANGED notarized

ToValidSpend ==
    \E i \in DOMAIN offers, arbitrage_ph \in ArbitragePhs :
        \E r \in {to_valid_spend(Payments(i), offers[i].bundle, arbitrage_ph)} :
            /\ last' = Result("to_valid_spend", r.err, <<i>>, AllValid(<<i>>), 0, <<>>,
                              r.bundle, arbitrage_ph)
            /\ UNCHANGED <<offers, lists, notarized>>

Next == Construct \/ FromBytes \/ Aggregate \/ ToValidSpend

Spec == Init /\ [][Next]_vars

(***************************************************************************)
(* notarize_payments as a state machine of its own: each step is one call. *)
(***************************************************************************)
CoinMenu == {Coin(parent, get_tree_hash(P2_MOD), MaxAmount) : parent \in {1, 2}}

PlainDictMenu ==
    {<<>>,
     <<[key |-> None, val |-> <<Payment(6, 1, <<>>)>>]>>,
     <<[key |-> 1, val |-> <<Payment(6, MaxAmount, <<7>>), Payment(6, 1, <<>>)>>],
       [key |-> None, val |-> <<Payment(6, 1, <<7>>)>>]>>}

Notarize ==
    /\ Len(notarized) < MaxCalls
    /\ \E requested_payments \in PlainDictMenu, coins \in SeqsUpTo(CoinMenu, MaxCoins) :
           notarized' = Append(notarized,
               [requested_payments |-> requested_payments,
                coins |-> coins,
                nonce |-> Nonce(coins),
                result |-> notarize_payments(requested_payments, coins)])
    /\ UNCHANGED <<offers, lists, last>>

NextNotarize == Notarize

SpecNotarize == Init /\ [][NextNotarize]_vars

(***************************************************************************)
(* Properties.                                                             *)
(***************************************************************************)
SetOf(s) == {s[i] : i \in DOMAIN s}

Count(s, x) == Cardinality({i \in DOMAIN s : s[i] = x})

SameMultiset(s, t) == \A x \in SetOf(s) \cup SetOf(t) : Count(s, x) = Count(t, x)

\* Every notarized payment of the call's result carries the call's nonce and
\* the puzzle hash, amount and memos of the payment at its place; the keys
\* and their order are those of the input.
NotarizedInPlace(call) ==
    /\ Len(call.result) = Len(call.requested_payments)
    /\ \A i \in DOMAIN call.requested_payments :
           /\ call.result[i].key = call.requested_payments[i].key
           /\ Len(call.result[i].val) = Len(call.requested_payments[i].val)
           /\ \A j \in DOMAIN call.requested_payments[i].val :
                  /\ call.result[i].val[j].nonce = call.nonce
                  /\ call.result[i].val[j].puzzle_hash
                         = call.requested_payments[i].val[j].puzzle_hash
                  /\ call.result[i].val[j].amount
                         = call.requested_payments[i].val[j].amount
                  /\ call.result[i].val[j].memos
                         = call.requested_payments[i].val[j].memos

\* C8 as claimed: two calls of notarize_payments whose coin lists are equal
\* as unordered sets get the same nonce, and every payment of a result
\* carries that nonce with the fields of the payment it replaces, under the
\* same keys.
C8_NonceBySet ==
    /\ \A x \in DOMAIN notarized, y \in DOMAIN notarized :
           SetOf(notarized[x].coins) = SetOf(notarized[y].coins)
               => notarized[x].nonce = notarized[y].nonce
    /\ \A x \in DOMAIN notarized : NotarizedInPlace(notarized[x])

\* C8 as amended: two calls of notarize_payments whose coin lists are
\* permutations of one another (equal as multisets) get the same nonce and,
\* for the same requested payments, the same result; every payment of a
\* result carries the call's nonce with the fields of the payment it
\* replaces, under the same keys.
C8_NonceByMultiset ==
    /\ \A x \in DOMAIN notarized, y \in DOMAIN notarized :
           SameMultiset(notarized[x].coins, notarized[y].coins)
               => /\ notarized[x].nonce = notarized[y].nonce
                  /\ notarized[x].requested_payments = notarized[y].requested_payments
                         => notarized[x].result = notarized[y].result
    /\ \A x \in DOMAIN notarized : NotarizedInPlace(notarized[x])

\* Two calls on the same two distinct coins in opposite orders, with
\* payments to notarize.
C8_Witness ==
    /\ Len(notarized) = 2
    /\ Len(notarized[1].coins) = 2
    /\ notarized[1].coins[1] # notarized[1].coins[2]
    /\ notarized[2].coins = <<notarized[1].coins[2], notarized[1].coins[1]>>
    /\ notarized[1].requested_payments = notarized[2].requested_payments
    /\ Len(notarized[1].requested_payments) = 2

RECURSIVE Total(_)
Total(s) == IF s = <<>> THEN 0 ELSE Total(SubSeq(s, 1, Len(s) - 1)) + s[Len(s)].amount

Constructors == {"Offer", "from_bytes", "aggregate"}

\* C1 as claimed: from_bytes(bytes(o)) of a built offer o yields an offer
\* with the same requested payments (keys, and per key the same payment
\* list) and the same bundle (coin spends and aggregated signature).
C1_RoundTrip ==
    last.op = "from_bytes"
        => /\ last.err = "ok"
           /\ DictEq(last.requested_payments, Payments(last.ins[1]))
           /\ last.bundle = offers[last.ins[1]].bundle

\* C2 as claimed: no operation changes the requested payments or the bundle
\* of an offer that is already built.
C2_Immutable ==
    [][\A i \in DOMAIN offers :
           /\ offers'[i] = offers[i]
           /\ Deref(offers'[i].requested_payments, lists') = Payments(i)]_vars

PairwiseDisjoint(ins) ==
    \A j \in DOMAIN ins, k \in DOMAIN ins :
        j < k => Inputs(offers[ins[j]].bundle) \cap Inputs(offers[ins[k]].bundle) = {}

\* C3: aggregate raises the overlapping-inputs error whenever an offer of
\* the list spends a coin that an earlier offer of the list spends, so an
\* offer returned by aggregate comes from offers with pairwise disjoint
\* input coins.
C3_OverlapRejected ==
    last.op = "aggregate"
        => /\ ~PairwiseDisjoint(last.ins) => last.err = "overlap"
           /\ last.err = "ok" => PairwiseDisjoint(last.ins)

\* aggregate([A, A]) was called and raised the overlapping-inputs error.
C3_Witness ==
    /\ last.op = "aggregate"
    /\ Len(last.ins) = 2
    /\ last.ins[1] = last.ins[2]
    /\ last.err = "overlap"

\* C4 as claimed: when every offer of the list is valid and their input
\* coins are pairwise disjoint, aggregate returns an offer and it is valid.
C4_ValidityMonotone ==
    (last.op = "aggregate" /\ last.valid /\ PairwiseDisjoint(last.ins))
        => /\ last.err = "ok"
           /\ is_valid(last.requested_payments, last.bundle)

\* C4 as amended: when the list is not empty, every offer of it is valid,
\* their input coins are pairwise disjoint and the payments they request
\* under one asset key all have different names, aggregate returns an offer
\* and it is valid.
C4_ValidityMonotoneDistinct ==
    (/\ last.op = "aggregate"
     /\ last.ins # <<>>
     /\ last.valid
     /\ PairwiseDisjoint(last.ins)
     /\ \A i \in DOMAIN last.requested_payments :
            ~HasDuplicates(last.requested_payments[i].val))
        => /\ last.err = "ok"
           /\ last.res = Len(offers)
           /\ is_valid(last.requested_payments, last.bundle)

\* Two different valid offers that request payments of the same asset were
\* aggregated into a valid offer.
C4_Witness ==
    /\ last.op = "aggregate"
    /\ Len(last.ins) = 2
    /\ last.valid
    /\ last.err = "ok"
    /\ \E i \in DOMAIN last.requested_payments : Len(last.requested_payments[i].val) = 2
    /\ is_valid(last.requested_payments, last.bundle)

\* C5 as claimed: no payment list of a built offer ever holds two payments
\* of the same name, and a constructor call on a list with two payments of
\* the same name raises the duplicate-payment error (the empty-offer check
\* comes first).
C5_NoDuplicateRequests ==
    /\ \A i \in DOMAIN offers : \A e \in DOMAIN Payments(i) :
           ~HasDuplicates(Payments(i)[e].val)
    /\ (/\ last.op \in Constructors
        /\ last.err \notin {"overlap", "malformed", "empty"}
        /\ \E e \in DOMAIN last.requested_payments :
               HasDuplicates(last.requested_payments[e].val))
           => last.err = "duplicate"

SettlementHashes == {get_tree_hash(SettlementPuzzle(k)) : k \in AssetKeys}

NoSettlementAddition(bundle) ==
    \A i \in DOMAIN additions(bundle.coin_spends) :
        additions(bundle.coin_spends)[i].puzzle_hash \notin SettlementHashes

\* C6: a constructor call (direct, from from_bytes or from aggregate) on a
\* bundle none of whose additions goes to a settlement puzzle hash raises
\* the empty-offer error, and get_offered_coins() of every built offer is
\* not empty.
C6_EmptyRejected ==
    /\ \A i \in DOMAIN offers : get_offered_coins(offers[i].bundle) # <<>>
    /\ (/\ last.op \in Constructors
        /\ last.err \notin {"overlap", "malformed"}
        /\ NoSettlementAddition(last.bundle))
           => last.err = "empty"

\* Offer(...) was called on a bundle whose only addition is change, and
\* raised the empty-offer error.
C6_Witness ==
    /\ last.op = "Offer"
    /\ last.bundle.coin_spends # <<>>
    /\ NoSettlementAddition(last.bundle)
    /\ last.err = "empty"

\* The coins of the spends before the last n spends of the bundle.
CompletionCoins(bundle, n) ==
    [i \in 1..(Len(bundle.coin_spends) - n) |-> bundle.coin_spends[i].coin]

\* C7 as claimed: to_valid_spend raises the incomplete-offer error and
\* returns nothing when the offer is not valid, and when it is valid returns
\* the spends of the offered coins followed by the offer's own bundle.
C7_ToValidSpend ==
    last.op = "to_valid_spend"
        => LET own == offers[last.ins[1]].bundle
               n == Len(own.coin_spends)
               m == Len(last.bundle.coin_spends)
           IN  IF ~is_valid(Payments(last.ins[1]), own)
               THEN last.err = "incomplete" /\ last.bundle = EmptyBundle
               ELSE /\ last.err = "ok"
                    /\ m >= n
                    /\ SubSeq(last.bundle.coin_spends, m - n + 1, m) = own.coin_spends
                    /\ last.bundle.aggregated_signature = own.aggregated_signature
                    /\ SetOf(CompletionCoins(last.bundle, n))
                           \subseteq SetOf(additions(own.coin_spends))

\* C9: arbitrage() has an entry for exactly the asset keys of the offered
\* and of the requested amounts, each entry is the sum of the offered coin
\* amounts minus the sum of the requested payment amounts of its key (zero
\* for a missing side), and is_valid() holds exactly when no entry is
\* negative.
C9_Balance ==
    \A i \in DOMAIN offers :
        LET requested == Payments(i)
            bundle == offers[i].bundle
            offered == get_offered_coins(bundle)
            arb == arbitrage(requested, bundle)
        IN  /\ DictKeys(arb)
                   = DictKeys(get_offered_amounts(bundle))
                         \cup DictKeys(get_requested_amounts(requested))
            /\ Cardinality(DictKeys(arb)) = Len(arb)
            /\ \A k \in DictKeys(arb) :
                   DictGet(arb, k)
                       = (IF DictHas(offered, k) THEN Total(DictGet(offered, k)) ELSE 0)
                             - (IF DictHas(requested, k)
                                THEN Total(DictGet(requested, k)) ELSE 0)
            /\ is_valid(requested, bundle) <=> \A k \in DictKeys(arb) : DictGet(arb, k) >= 0

\* An offer with an asset on the requested side only (a negative entry, so
\* the offer is not valid) and an asset on the offered side only.
C9_Witness ==
    \E i \in DOMAIN offers :
        LET arb == arbitrage(Payments(i), offers[i].bundle)
        IN  /\ \E k \in DictKeys(arb) :
                   /\ ~DictHas(get_offered_coins(offers[i].bundle), k)
                   /\ DictGet(arb, k) < 0
            /\ \E k \in DictKeys(arb) :
                   /\ ~DictHas(Payments(i), k)
                   /\ DictGet(arb, k) > 0
            /\ ~is_valid(Payments(i), offers[i].bundle)

\* The conditions declared by the spend of `coin` in the bundle.
Declared(bundle, coin) ==
    bundle.coin_spends[CHOOSE i \in DOMAIN bundle.coin_spends :
        /\ bundle.coin_spends[i].coin = coin
        /\ \A j \in 1..(i - 1) : bundle.coin_spends[j].coin # coin].solution.inner

Surplus(i, k) ==
    Total(DictGet(get_offered_coins(offers[i].bundle), k)) - Total(DictGet(Payments(i), k))

\* C10: in the bundle to_valid_spend returns, the spend of the first offered
\* coin of every asset with requested payments declares the requested
\* payments in their order, followed by one payment of the surplus to
\* arbitrage_ph when the surplus is positive and by nothing when it is zero.
C10_SurplusPayout ==
    (last.op = "to_valid_spend" /\ last.err = "ok")
        => \A e \in DOMAIN Payments(last.ins[1]) :
               LET i == last.ins[1]
                   k == Payments(i)[e].key
                   payments == Payments(i)[e].val
                   n == Len(payments)
                   declared == Declared(last.bundle,
                                   DictGet(get_offered_coins(offers[i].bundle), k)[1])
               IN  /\ DictHas(get_offered_coins(offers[i].bundle), k)
                   /\ Len(declared) = IF Surplus(i, k) > 0 THEN n + 1 ELSE n
                   /\ \A j \in DOMAIN payments : declared[j] = as_condition(payments[j])
                   /\ Surplus(i, k) > 0
                          => /\ declared[n + 1][2] = last.arbitrage_ph
                             /\ declared[n + 1][3] = Surplus(i, k)

\* to_valid_spend returned for an offer that requests one payment of an
\* asset it offers more of: two payments are declared.
C10_Witness ==
    /\ last.op = "to_valid_spend"
    /\ last.err = "ok"
    /\ \E e \in DOMAIN Payments(last.ins[1]) :
           LET i == last.ins[1]
               k == Payments(i)[e].key
           IN  /\ Len(Payments(i)[e].val) = 1
               /\ Surplus(i, k) > 0
               /\ Len(Declared(last.bundle,
                        DictGet(get_offered_coins(offers[i].bundle), k)[1])) = 2

\* The spends to_valid_spend put in front of the offer's own spends.
CompletionSpends(i) ==
    SubSeq(last.bundle.coin_spends, 1,
           Len(last.bundle.coin_spends) - Len(offers[i].bundle.coin_spends))

\* Those of asset key k, in their order: the spends of k's settlement puzzle.
CompletionSpendsOf(i, k) ==
    SelectSeq(CompletionSpends(i), LAMBDA cs : cs.puzzle_reveal = SettlementPuzzle(k))

\* The full payment condition list of asset key k: the requested payments
\* and, for a positive surplus, its payout.
FullConditions(i, k) ==
    LET payments == DictGet(Payments(i), k)
        requested == [j \in DOMAIN payments |-> as_condition(payments[j])]
    IN  IF Surplus(i, k) > 0
        THEN Append(requested, <<ZERO_32, last.arbitrage_ph, Surplus(i, k), <<>>>>)
        ELSE requested

\* C11 as claimed: in the bundle to_valid_spend returns there is, for every
\* asset key with requested payments, one completion spend per offered coin
\* of that asset, in the order of the offered coins; the spend at the first
\* place carries the full payment condition list and the spend at every
\* other place carries the empty list.
C11_SingleDeclarer ==
    (last.op = "to_valid_spend" /\ last.err = "ok")
        => \A k \in DictKeys(Payments(last.ins[1])) :
               LET i == last.ins[1]
                   coins == DictGetDefault(get_offered_coins(offers[i].bundle), k, <<>>)
                   spends == CompletionSpendsOf(i, k)
               IN  /\ Len(spends) = Len(coins)
                   /\ \A j \in DOMAIN spends :
                          /\ spends[j].coin = coins[j]
                          /\ spends[j].solution.inner
                                 = IF j = 1 THEN FullConditions(i, k) ELSE <<>>

\* The payment lists of asset key k of the offers ins, one after another; an
\* offer without the key contributes nothing.
RECURSIVE GivenPayments(_, _)
GivenPayments(ins, k) ==
    IF ins = <<>> THEN <<>>
    ELSE DictGetDefault(Payments(Head(ins)), k, <<>>) \o GivenPayments(Tail(ins), k)

\* The coin spends of the bundles of the offers ins, one after another.
RECURSIVE GivenSpends(_)
GivenSpends(ins) ==
    IF ins = <<>> THEN <<>>
    ELSE offers[Head(ins)].bundle.coin_spends \o GivenSpends(Tail(ins))

\* C12: the offer a call of aggregate returns has the asset keys of the
\* offers it was given, under every key the concatenation, in input order,
\* of the payment lists the given offers had for that key when the call
\* began (payments unchanged, nonce included), and a bundle whose coin
\* spends are the given bundles' coin spends in input order.
C12_AggregateContent ==
    [][(last'.op = "aggregate" /\ last'.err = "ok")
           => /\ DictKeys(last'.requested_payments)
                     = UNION {DictKeys(Payments(last'.ins[j])) : j \in DOMAIN last'.ins}
              /\ \A k \in AssetKeys :
                     DictGetDefault(last'.requested_payments, k, <<>>)
                         = GivenPayments(last'.ins, k)
              /\ last'.bundle.coin_spends = GivenSpends(last'.ins)
              /\ last'.res = Len(offers')
              /\ DictEq(Deref(offers'[last'.res].requested_payments, lists'),
                        last'.requested_payments)
              /\ offers'[last'.res].bundle = last'.bundle]_vars

\* aggregate returned for two offers that both request payments of one
\* asset: the returned list has a payment of each, the bundle a spend of
\* each.
C12_Witness ==
    /\ last.op = "aggregate"
    /\ last.err = "ok"
    /\ Len(last.ins) = 2
    /\ last.ins[1] # last.ins[2]
    /\ Len(last.bundle.coin_spends) = 2
    /\ \E e \in DOMAIN last.requested_payments :
           /\ Len(last.requested_payments[e].val) = 2
           /\ last.requested_payments[e].val[1] # last.requested_payments[e].val[2]

\* The coins the spends create, in the order of additions(), each with the
\* puzzle reveal of the spend that creates it.
RECURSIVE Created(_)
Created(coin_spends) ==
    IF coin_spends = <<>> THEN <<>>
    ELSE [j \in DOMAIN SpendAdditions(Head(coin_spends)) |->
             [coin |-> SpendAdditions(Head(coin_spends))[j],
              puzzle_reveal |-> Head(coin_spends).puzzle_reveal]]
             \o Created(Tail(coin_spends))

\* The asset key of a spent puzzle: its tail when it is the token wrapper,
\* None otherwise.
KeyOf(puzzle_reveal) == IF puzzle_reveal.cat THEN puzzle_reveal.tail ELSE None

\* A created coin is offered under key k: its parent's puzzle has key k and
\* the coin goes to the settlement puzzle hash of k.
OfferedUnder(c, k) ==
    /\ KeyOf(c.puzzle_reveal) = k
    /\ c.coin.puzzle_hash = get_tree_hash(SettlementPuzzle(k))

Classified(bundle) ==
    LET offered_coins == get_offered_coins(bundle)
        created == Created(bundle.coin_spends)
    IN  /\ Cardinality(DictKeys(offered_coins)) = Len(offered_coins)
        /\ DictKeys(offered_coins) \subseteq AssetKeys
        /\ \A k \in AssetKeys :
               LET expected == SelectSeq(created, LAMBDA c : OfferedUnder(c, k))
               IN  /\ DictHas(offered_coins, k) <=> expected # <<>>
                   /\ DictGetDefault(offered_coins, k, <<>>)
                          = [j \in DOMAIN expected |-> expected[j].coin]

\* C13: get_offered_coins() of every built offer, and of every bundle a
\* constructor was called on, has under asset key k exactly the additions of
\* the bundle whose puzzle hash is the settlement puzzle hash of k and whose
\* parent spend's puzzle has key k (the tail of a token wrapper, None for
\* any other puzzle), in the order of additions(); a key without such an
\* addition is absent and every other addition is left out.
C13_OfferedClassification ==
    /\ \A i \in DOMAIN offers : Classified(offers[i].bundle)
    /\ (last.op \in Constructors /\ last.err \notin {"overlap", "malformed"})
           => Classified(last.bundle)

\* A built offer with offered coins of two assets, two coins of one of
\* them, and an addition that is not offered.
C13_Witness ==
    \E i \in DOMAIN offers :
        LET offered_coins == get_offered_coins(offers[i].bundle)
            adds == additions(offers[i].bundle.coin_spends)
        IN  /\ Len(offered_coins) = 2
            /\ \E e \in DOMAIN offered_coins : Len(offered_coins[e].val) = 2
            /\ \E a \in DOMAIN adds : adds[a].puzzle_hash \notin SettlementHashes

====
